---- MODULE Spec2Model ----
(***************************************************************************)
(* Form validation helper of CaseFlowMobileRN: ValidationConfigBuilder,    *)
(* validateForm and useFormValidation (src/unnamed/part_000).              *)
(*                                                                         *)
(* JavaScript values are modelled as tagged records [t, v]: t is the       *)
(* result of typeof (with null kept apart from objects) and v the payload. *)
(* A string is the sequence of its characters, so that trim() is computed. *)
(***************************************************************************)
EXTENDS Integers, Sequences, FiniteSets, TLC

(***************************************************************************)
(* Bounds of the model.                                                    *)
(***************************************************************************)
MaxRules == 2      \* conditional + string rules added to the builder
MaxBuilds == 1     \* build() calls on the builder
MaxImages == 2     \* length of the image list handed to the hook
MaxStreams == 2    \* MediaStreams getUserMedia hands out
MaxStarts == 2     \* handleStartCapture invocations waiting for getUserMedia at once
MaxTakes == 2      \* handleTakePhoto invocations waiting for the position at once
MaxClock == 1      \* milliseconds the system clock advances

(***************************************************************************)
(* JavaScript values.                                                      *)
(***************************************************************************)
Undefined == [t |-> "undefined", v |-> <<>>]
Null == [t |-> "null", v |-> <<>>]
Str(s) == [t |-> "string", v |-> s]
Num(n) == [t |-> "number", v |-> <<n>>]
Bool(b) == [t |-> "boolean", v |-> <<b>>]
Obj(fields) == [t |-> "object", v |-> fields]

EmptyString == Str(<<>>)
Blank == Str(<<" ", " ">>)
MixedWhitespace == Str(<<"\t", "\r", "\n", "\f", "U+00A0", "U+2003">>)
Hold == Str(<<"H", "o", "l", "d">>)
Clear == Str(<<"C", "l", "e", "a", "r">>)
Open == Str(<<"O", "p", "e", "n">>)
PendingDocs == Str(<<"p", "e", "n", "d", "i", "n", "g", " ", "d", "o", "c", "s">>)
PaddedX == Str(<<" ", "x", " ">>)

\* typeof value
TypeOf(value) == value.t

\* a === b on primitives: same type and same payload
StrictEquals(a, b) == a.t = b.t /\ a.v = b.v

\* ToBoolean(value), as used by !x, if (x) and x ? a : b
Truthy(value) ==
  CASE value.t = "undefined" -> FALSE
    [] value.t = "null" -> FALSE
    [] value.t = "string" -> value.v # <<>>
    [] value.t = "number" -> value.v # <<0>>
    [] value.t = "boolean" -> value.v = <<TRUE>>
    [] OTHER -> TRUE

\* A string is the sequence of its characters.  An ASCII character is the
\* one-character string of itself; any other character is the string "U+XXXX"
\* of its code point, so that the module reads the same in every locale.
\* WhiteSpace holds the 25 code points String.prototype.trim strips
\* (WhiteSpace and LineTerminator of the language: TAB, LF, VT, FF, CR,
\* space, U+00A0, U+1680, U+2000 to U+200A, U+2028, U+2029, U+202F, U+205F,
\* U+3000, U+FEFF).
WhiteSpace ==
  {"\t", "\n", "", "\f", "\r", " ",
   "U+00A0", "U+1680",
   "U+2000", "U+2001", "U+2002", "U+2003", "U+2004", "U+2005", "U+2006", "U+2007",
   "U+2008", "U+2009", "U+200A",
   "U+2028", "U+2029", "U+202F", "U+205F", "U+3000", "U+FEFF"}

RECURSIVE TrimStart(_)
TrimStart(s) ==
  IF s = <<>> THEN s
  ELSE IF Head(s) \in WhiteSpace THEN TrimStart(Tail(s)) ELSE s

RECURSIVE TrimEnd(_)
TrimEnd(s) ==
  IF s = <<>> THEN s
  ELSE IF s[Len(s)] \in WhiteSpace THEN TrimEnd(SubSeq(s, 1, Len(s) - 1)) ELSE s

\* String.prototype.trim on the character sequence
Trim(s) == TrimEnd(TrimStart(s))

\* the properties every object inherits from Object.prototype
ObjectPrototypeFunctions ==
  {"constructor", "toString", "toLocaleString", "valueOf", "hasOwnProperty", "isPrototypeOf",
   "propertyIsEnumerable", "__defineGetter__", "__defineSetter__", "__lookupGetter__",
   "__lookupSetter__"}

\* report[field]: the object's own value, else the value inherited from
\* Object.prototype, else undefined
Get(report, field) ==
  IF field \in DOMAIN report.v THEN report.v[field]
  ELSE IF report.t = "object" /\ field = "constructor" THEN [t |-> "function", v |-> "Object"]
  ELSE IF report.t = "object" /\ field \in ObjectPrototypeFunctions
  THEN [t |-> "function", v |-> field]
  ELSE IF report.t = "object" /\ field = "__proto__" THEN [t |-> "object", v |-> <<>>]
  ELSE Undefined

\* decimal digits of a non-negative integer, as `${n}` prints it
RECURSIVE Digits(_)
Digits(n) ==
  IF n < 10 THEN <<n>> ELSE Append(Digits(n \div 10), n % 10)

DigitChar(d) == <<"0", "1", "2", "3", "4", "5", "6", "7", "8", "9">>[d + 1]

NumberToString(n) == [i \in 1..Len(Digits(n)) |-> DigitChar(Digits(n)[i])]

(***************************************************************************)
(* Custom predicates a form may install with addCustomValidation.          *)
(***************************************************************************)
CustomPredicates == {"rejectHoldWithoutDetail", "requireKind"}

CustomApply(fn, report) ==
  CASE fn = "rejectHoldWithoutDetail" ->
         ~(StrictEquals(Get(report, "status"), Hold)
             /\ StrictEquals(Get(report, "detail"), Undefined))
    [] fn = "requireKind" -> Truthy(Get(report, "kind"))

(***************************************************************************)
(* validateForm (part_000:52-108).  The evaluation is returned as a run:   *)
(* ret is the boolean result, exit the return statement taken and          *)
(* customCalls the arguments of every call of config.customValidation.     *)
(***************************************************************************)
Run(ret, exit, customCalls) == [ret |-> ret, exit |-> exit, customCalls |-> customCalls]

\* faulty variant: `some` in place of `every`
checkFieldsSome(report, fields) ==
  \E i \in 1..Len(fields) :
    LET value == Get(report, fields[i])
    IN ~StrictEquals(value, Null) /\ ~StrictEquals(value, Undefined)
         /\ ~StrictEquals(value, EmptyString)

\* lines 64-69
checkFields(report, fields) ==
  \A i \in 1..Len(fields) :
    LET value == Get(report, fields[i])
    IN ~StrictEquals(value, Null) /\ ~StrictEquals(value, Undefined)
         /\ ~StrictEquals(value, EmptyString)

\* faulty variant: the value is not trimmed
checkStringFieldNoTrim(report, field) ==
  LET value == Get(report, field)
  IN TypeOf(value) = "string" /\ value.v # <<>>

\* lines 72-75
checkStringField(report, field) ==
  LET value == Get(report, field)
  IN TypeOf(value) = "string" /\ Trim(value.v) # <<>>

\* faulty variant: negateCondition is ignored
conditionMetIgnoringNegate(report, stringConfig) ==
  StrictEquals(Get(report, stringConfig.conditionField), stringConfig.conditionValue)

\* lines 92-94
conditionMet(report, stringConfig) ==
  IF Truthy(stringConfig.negateCondition)
  THEN ~StrictEquals(Get(report, stringConfig.conditionField), stringConfig.conditionValue)
  ELSE StrictEquals(Get(report, stringConfig.conditionField), stringConfig.conditionValue)

\* lines 102-107
customStep(report, config) ==
  IF Truthy(config.customValidation)
  THEN IF ~CustomApply(config.customValidation.v, report)
       THEN Run(FALSE, "L104", <<report>>)
       ELSE Run(TRUE, "L107", <<report>>)
  ELSE Run(TRUE, "L107", <<>>)

\* lines 89-100, from rule i on
RECURSIVE stringLoop(_, _, _)
stringLoop(report, config, i) ==
  IF ~Truthy(config.stringFields) \/ i > Len(config.stringFields.v)
  THEN customStep(report, config)
  ELSE IF conditionMet(report, config.stringFields.v[i])
            /\ ~checkStringField(report, config.stringFields.v[i].stringField)
       THEN Run(FALSE, "L97", <<>>)
       ELSE stringLoop(report, config, i + 1)

\* faulty variant: the loop stops at the first rule whose condition holds and passes
RECURSIVE conditionalLoopBreak(_, _, _)
conditionalLoopBreak(report, config, i) ==
  IF ~Truthy(config.conditionalFields) \/ i > Len(config.conditionalFields.v)
  THEN stringLoop(report, config, 1)
  ELSE IF StrictEquals(Get(report, config.conditionalFields.v[i].conditionField),
                       config.conditionalFields.v[i].conditionValue)
       THEN IF ~checkFields(report, config.conditionalFields.v[i].requiredFields)
            THEN Run(FALSE, "L84", <<>>)
            ELSE stringLoop(report, config, 1)
       ELSE conditionalLoopBreak(report, config, i + 1)

\* faulty variant: the conditional block is left out
conditionalLoopSkipped(report, config, i) == stringLoop(report, config, 1)

\* lines 80-87, from rule i on
RECURSIVE conditionalLoop(_, _, _)
conditionalLoop(report, config, i) ==
  IF ~Truthy(config.conditionalFields) \/ i > Len(config.conditionalFields.v)
  THEN stringLoop(report, config, 1)
  ELSE IF StrictEquals(Get(report, config.conditionalFields.v[i].conditionField),
                       config.conditionalFields.v[i].conditionValue)
            /\ ~checkFields(report, config.conditionalFields.v[i].requiredFields)
       THEN Run(FALSE, "L84", <<>>)
       ELSE conditionalLoop(report, config, i + 1)

\* faulty variant: the image check is off by one
validateFormRunOffByOne(report, images, config) ==
  IF ~Truthy(report) THEN Run(FALSE, "L58", <<>>)
  ELSE IF Len(images) <= config.minImages THEN Run(FALSE, "L61", <<>>)
  ELSE IF ~checkFields(report, config.baseFields) THEN Run(FALSE, "L78", <<>>)
  ELSE conditionalLoop(report, config, 1)

\* lines 52-108
validateFormRun(report, images, config) ==
  IF ~Truthy(report) THEN Run(FALSE, "L58", <<>>)
  ELSE IF Len(images) < config.minImages THEN Run(FALSE, "L61", <<>>)
  ELSE IF ~checkFields(report, config.baseFields) THEN Run(FALSE, "L78", <<>>)
  ELSE conditionalLoop(report, config, 1)

validateForm(report, images, config) == validateFormRun(report, images, config).ret

(***************************************************************************)
(* useFormValidation (part_000:185-204).                                   *)
(***************************************************************************)
ReportNotAvailable == Str(<<"Report data is not available.">>)
FillRequiredFields == Str(<<"Please fill all required fields to submit.">>)
CaptureAtLeast(n) ==
  Str(<<"Please capture at least ">> \o NumberToString(n) \o <<" photos to submit.">>)

\* faulty variant: the image count is looked at before the record
errorMessageImagesFirst(isValid, report, images, config) ==
  IF ~isValid
  THEN IF Len(images) < config.minImages THEN CaptureAtLeast(config.minImages)
       ELSE IF ~Truthy(report) THEN ReportNotAvailable
       ELSE FillRequiredFields
  ELSE Null

\* faulty variant: the message is chosen without looking at isValid
errorMessageUnguarded(isValid, report, images, config) ==
  IF ~Truthy(report) THEN ReportNotAvailable
  ELSE IF Len(images) < config.minImages THEN CaptureAtLeast(config.minImages)
  ELSE FillRequiredFields

\* faulty variant: the message names the images captured, not the images required
errorMessageCountsImages(isValid, report, images, config) ==
  IF ~isValid
  THEN IF ~Truthy(report) THEN ReportNotAvailable
       ELSE IF Len(images) < config.minImages THEN CaptureAtLeast(Len(images))
       ELSE FillRequiredFields
  ELSE Null

\* lines 192-201
errorMessageOf(isValid, report, images, config) ==
  IF ~isValid
  THEN IF ~Truthy(report) THEN ReportNotAvailable
       ELSE IF Len(images) < config.minImages THEN CaptureAtLeast(config.minImages)
       ELSE FillRequiredFields
  ELSE Null

useFormValidation(report, images, config) ==
  LET run == validateFormRun(report, images, config)
  IN [isValid |-> run.ret,
      errorMessage |-> errorMessageOf(run.ret, report, images, config),
      run |-> run]

(***************************************************************************)
(* ValidationConfigBuilder (part_000:113-180).  Objects live on a heap and *)
(* are named by references, as in JavaScript: the builder's this.config,   *)
(* its two rule arrays and whatever build() hands out are references.      *)
(***************************************************************************)
Ref(n) == [t |-> "object", v |-> n]
Fn(name) == [t |-> "function", v |-> name]

\* lines 116-124: the heap after `new ValidationConfigBuilder(minImages, baseFields)`
constructorHeap(minImages, baseFields) ==
  << [minImages |-> minImages,
      baseFields |-> baseFields,
      conditionalFields |-> Ref(2),
      stringFields |-> Ref(3),
      customValidation |-> Undefined],
     <<>>,
     <<>> >>

\* faulty variant: the rule is put in front of the list (unshift)
addConditionalFieldsUnshift(h, this, conditionField, conditionValue, requiredFields) ==
  LET arr == h[this.config.v].conditionalFields.v
  IN [h EXCEPT ![arr] = <<[conditionField |-> conditionField,
                          conditionValue |-> conditionValue,
                          requiredFields |-> requiredFields]>> \o @]

\* lines 129-143
addConditionalFields(h, this, conditionField, conditionValue, requiredFields) ==
  LET h1 == IF ~Truthy(h[this.config.v].conditionalFields)
            THEN Append([h EXCEPT ![this.config.v].conditionalFields = Ref(Len(h) + 1)], <<>>)
            ELSE h
      arr == h1[this.config.v].conditionalFields.v
  IN [h1 EXCEPT ![arr] = Append(@, [conditionField |-> conditionField,
                                    conditionValue |-> conditionValue,
                                    requiredFields |-> requiredFields])]

\* faulty variant: an omitted flag defaults to true
addStringFieldNegated(h, this, conditionField, conditionValue, stringField, negateArg) ==
  LET negateCondition == IF StrictEquals(negateArg, Undefined) THEN Bool(TRUE) ELSE negateArg
      h1 == IF ~Truthy(h[this.config.v].stringFields)
            THEN Append([h EXCEPT ![this.config.v].stringFields = Ref(Len(h) + 1)], <<>>)
            ELSE h
      arr == h1[this.config.v].stringFields.v
  IN [h1 EXCEPT ![arr] = Append(@, [conditionField |-> conditionField,
                                    conditionValue |-> conditionValue,
                                    stringField |-> stringField,
                                    negateCondition |-> negateCondition])]

\* lines 148-164; negateArg is Undefined when the caller omits the flag
addStringField(h, this, conditionField, conditionValue, stringField, negateArg) ==
  LET negateCondition == IF StrictEquals(negateArg, Undefined) THEN Bool(FALSE) ELSE negateArg
      h1 == IF ~Truthy(h[this.config.v].stringFields)
            THEN Append([h EXCEPT ![this.config.v].stringFields = Ref(Len(h) + 1)], <<>>)
            ELSE h
      arr == h1[this.config.v].stringFields.v
  IN [h1 EXCEPT ![arr] = Append(@, [conditionField |-> conditionField,
                                    conditionValue |-> conditionValue,
                                    stringField |-> stringField,
                                    negateCondition |-> negateCondition])]

\* faulty variant: a predicate already installed is kept
addCustomValidationKeepFirst(h, this, validationFn) ==
  IF Truthy(h[this.config.v].customValidation) THEN h
  ELSE [h EXCEPT ![this.config.v].customValidation = Fn(validationFn)]

\* lines 169-172
addCustomValidation(h, this, validationFn) ==
  [h EXCEPT ![this.config.v].customValidation = Fn(validationFn)]

\* lines 177-179: the reference held in this.config, not a copy
build(h, this) == this.config

\* The configuration a reference denotes in heap h, as validateForm reads it
ConfigAt(h, ref) ==
  LET c == h[ref.v]
  IN [minImages |-> c.minImages,
      baseFields |-> c.baseFields,
      conditionalFields |->
        IF Truthy(c.conditionalFields) THEN Obj(h[c.conditionalFields.v]) ELSE Undefined,
      stringFields |->
        IF Truthy(c.stringFields) THEN Obj(h[c.stringFields.v]) ELSE Undefined,
      customValidation |-> c.customValidation]

(***************************************************************************)
(* Inputs.                                                                 *)
(***************************************************************************)
ReportFields == {"status", "kind", "holdReason", "detail"}

FieldValues(f) ==
  CASE f = "status" -> {Undefined, Hold, Clear}
    [] f = "kind" -> {Undefined, Null, EmptyString, Open}
    [] f = "holdReason" -> {Undefined, Null, EmptyString, Blank, MixedWhitespace, PendingDocs, Num(5)}
    [] f = "detail" -> {Undefined, PaddedX}

Reports ==
  {Null, Undefined} \cup
  {Obj(r) : r \in [status : FieldValues("status"), kind : FieldValues("kind"),
                   holdReason : FieldValues("holdReason"), detail : FieldValues("detail")]}

Image(i) == [id |-> i]
ImageLists == {[i \in 1..n |-> Image(i)] : n \in 0..MaxImages}

\* MIN_IMAGES of a form: none required, or the two of the scenario
MinImagesChoices == {0, 2}

BaseFieldChoices == {<<>>, <<"status", "kind">>}

ConditionalChoices ==
  {<<"status", Hold, <<"holdReason">>>>, <<"kind", Open, <<"detail">>>>}

StringChoices ==
  {<<"status", Hold, "holdReason", Undefined>>,
   <<"status", Clear, "holdReason", Bool(TRUE)>>}

\* the configuration literal of the concrete scenario (no builder involved)
ScenarioConfig ==
  [minImages |-> 2,
   baseFields |-> <<"status">>,
   conditionalFields |-> Undefined,
   stringFields |-> Obj(<<[conditionField |-> "status", conditionValue |-> Hold,
                           stringField |-> "holdReason", negateCondition |-> Undefined]>>),
   customValidation |-> Undefined]

\* a form whose one required field has the name of a property every object
\* inherits (the field names are plain strings, keyof T)
InheritedNameConfig ==
  [minImages |-> 0,
   baseFields |-> <<"constructor">>,
   conditionalFields |-> Undefined,
   stringFields |-> Undefined,
   customValidation |-> Undefined]

LiteralConfigs == {ScenarioConfig, InheritedNameConfig}

(***************************************************************************)
(* State.                                                                  *)
(***************************************************************************)
VARIABLES
  heap,      \* the objects of the builder: its config object and rule arrays
  builder,   \* the ValidationConfigBuilder instance: [config |-> reference]
  returned,  \* the values build() has returned so far, in call order
  call,      \* the hook call being rendered: its arguments and its result
  \* ImageCapture (README.md:245-448)
  capturedImages,   \* the images prop: the list the parent holds
  isCapturing,      \* useState: the capture modal is visible
  isLoading,        \* useState: a handleTakePhoto is running
  error,            \* useState: the message shown, or null
  streamRef,        \* streamRef.current: 0 for null, else a stream of `streams`
  srcObject,        \* videoRef.current.srcObject: 0 for none, else a stream
  streams,          \* every MediaStream getUserMedia has handed out: live or stopped
  starts,           \* handleStartCapture invocations waiting for getUserMedia
  takes,            \* handleTakePhoto invocations waiting for the position
  done,             \* how the handleTakePhoto that finished last ended
  mounted,          \* the component is mounted
  cameraSupported,  \* navigator.mediaDevices.getUserMedia exists
  modalKeepsVideo,  \* Modal keeps its children mounted while it is not visible
  clock             \* the millisecond the system clock reads

formVars == <<heap, builder, returned, call>>

captureVars == <<capturedImages, isCapturing, isLoading, error, streamRef, srcObject, streams,
                 starts, takes, done, mounted, cameraSupported, modalKeepsVideo, clock>>

vars == <<formVars, captureVars>>

\* ImageCapture as it is mounted: useState and useRef initial values
\* (README.md:246-250), no image yet, nothing in flight
CaptureInit ==
  /\ capturedImages = <<>>
  /\ isCapturing = FALSE
  /\ isLoading = FALSE
  /\ error = Null
  /\ streamRef = 0
  /\ srcObject = 0
  /\ streams = <<>>
  /\ starts = 0
  /\ takes = <<>>
  /\ done = "none"
  /\ mounted = TRUE
  /\ clock = 0

NoCall == [op |-> "none"]

RuleCount ==
  LET c == ConfigAt(heap, builder.config)
  IN (IF Truthy(c.conditionalFields) THEN Len(c.conditionalFields.v) ELSE 0)
       + (IF Truthy(c.stringFields) THEN Len(c.stringFields.v) ELSE 0)

Init ==
  /\ \E minImages \in MinImagesChoices, baseFields \in BaseFieldChoices :
       heap = constructorHeap(minImages, baseFields)
  /\ builder = [config |-> Ref(1)]
  /\ returned = <<>>
  /\ call = NoCall
  /\ CaptureInit
  /\ cameraSupported = TRUE
  /\ modalKeepsVideo = TRUE

AddConditionalFields ==
  /\ call = NoCall
  /\ RuleCount < MaxRules
  /\ \E rule \in ConditionalChoices :
       heap' = addConditionalFields(heap, builder, rule[1], rule[2], rule[3])
  /\ UNCHANGED <<builder, returned, call, captureVars>>

AddStringField ==
  /\ call = NoCall
  /\ RuleCount < MaxRules
  /\ \E rule \in StringChoices :
       heap' = addStringField(heap, builder, rule[1], rule[2], rule[3], rule[4])
  /\ UNCHANGED <<builder, returned, call, captureVars>>

AddCustomValidation ==
  /\ call = NoCall
  /\ \E fn \in CustomPredicates :
       heap' = addCustomValidation(heap, builder, fn)
  /\ UNCHANGED <<builder, returned, call, captureVars>>

Build ==
  /\ call = NoCall
  /\ Len(returned) < MaxBuilds
  /\ returned' = Append(returned, build(heap, builder))
  /\ UNCHANGED <<heap, builder, call, captureVars>>

\* the configurations a form can hand to the hook: what build() returned,
\* read through the reference at the time of the call, or, as long as
\* build() has returned nothing, a literal
AvailableConfigs ==
  IF returned = <<>> THEN LiteralConfigs
  ELSE {ConfigAt(heap, returned[i]) : i \in 1..Len(returned)}

\* faulty variant: the evaluation consumes the string rules it visits
ValidateConsuming ==
  /\ call = NoCall
  /\ \E report \in Reports, images \in ImageLists, config \in AvailableConfigs :
       call' = [op |-> "useFormValidation",
                report |-> report, images |-> images, config |-> config,
                result |-> useFormValidation(report, images, config)]
  /\ heap' = IF returned = <<>> THEN heap
             ELSE [heap EXCEPT ![heap[returned[1].v].stringFields.v] = <<>>]
  /\ UNCHANGED <<builder, returned, captureVars>>

\* a form component renders: it calls the hook with its report, its images
\* and its configuration
Validate ==
  /\ call = NoCall
  /\ \E report \in Reports, images \in ImageLists, config \in AvailableConfigs :
       call' = [op |-> "useFormValidation",
                report |-> report, images |-> images, config |-> config,
                result |-> useFormValidation(report, images, config)]
  /\ UNCHANGED <<heap, builder, returned, captureVars>>

\* the render that made the call completes; the result is dropped
RenderDone ==
  /\ call # NoCall
  /\ call' = NoCall
  /\ UNCHANGED <<heap, builder, returned, captureVars>>

Next ==
  \/ AddConditionalFields
  \/ AddStringField
  \/ AddCustomValidation
  \/ Build
  \/ Validate
  \/ RenderDone

Spec == Init /\ [][Next]_vars

TypeOK ==
  /\ Len(returned) <= MaxBuilds
  /\ call.op \in {"none", "useFormValidation"}
  /\ call.op = "useFormValidation" => call.result.isValid \in BOOLEAN

(***************************************************************************)
(* The contract of the evaluator, stated on its own: every check is        *)
(* evaluated and the results are conjoined.  None of these definitions     *)
(* uses the operators that model the code.                                 *)
(***************************************************************************)
RecordPresent(report) == report # Null /\ report # Undefined

FieldPresent(value) == value \notin {Null, Undefined, Str(<<>>)}

NonBlankString(value) ==
  value.t = "string" /\ \E k \in 1..Len(value.v) : value.v[k] \notin WhiteSpace

RulesIn(list) == IF list = Undefined THEN <<>> ELSE list.v

AllFieldsPresent(report, fields) ==
  \A k \in 1..Len(fields) : FieldPresent(Get(report, fields[k]))

ConditionalRuleHolds(report, rule) ==
  (Get(report, rule.conditionField) = rule.conditionValue)
    => AllFieldsPresent(report, rule.requiredFields)

\* the condition of a string rule: equality, inverted by the negate flag
StringRuleApplies(report, rule) ==
  (Get(report, rule.conditionField) = rule.conditionValue) # (rule.negateCondition = Bool(TRUE))

StringRuleHolds(report, rule) ==
  StringRuleApplies(report, rule) => NonBlankString(Get(report, rule.stringField))

AllConditionalsHold(report, config) ==
  \A k \in 1..Len(RulesIn(config.conditionalFields)) :
    ConditionalRuleHolds(report, RulesIn(config.conditionalFields)[k])

AllStringsHold(report, config) ==
  \A k \in 1..Len(RulesIn(config.stringFields)) :
    StringRuleHolds(report, RulesIn(config.stringFields)[k])

CustomHolds(report, config) ==
  config.customValidation = Undefined \/ CustomApply(config.customValidation.v, report)

ReferenceValid(report, images, config) ==
  /\ RecordPresent(report)
  /\ Len(images) >= config.minImages
  /\ AllFieldsPresent(report, config.baseFields)
  /\ AllConditionalsHold(report, config)
  /\ AllStringsHold(report, config)
  /\ CustomHolds(report, config)

\* the 'capture at least N photos' message, for one-digit N
ExpectedCaptureMessage(n) ==
  Str(<<"Please capture at least ", ToString(n), " photos to submit.">>)

Called == call.op = "useFormValidation"

\* a sequence without its k-th element
RemoveAt(seq, k) == SubSeq(seq, 1, k - 1) \o SubSeq(seq, k + 1, Len(seq))

WithoutConditional(config, k) ==
  [config EXCEPT !.conditionalFields = Obj(RemoveAt(@.v, k))]

WithoutString(config, k) ==
  [config EXCEPT !.stringFields = Obj(RemoveAt(@.v, k))]

(***************************************************************************)
(* C1: validateForm returns true exactly when the record is present, the   *)
(* image count reaches minImages, every base field is present, every       *)
(* conditional rule whose condition holds has its required fields, every   *)
(* string rule whose condition holds has a non-blank string target and the *)
(* custom predicate, if any, returns true: the short-circuiting code       *)
(* agrees with the evaluate-all-and-AND reference.                         *)
(***************************************************************************)
C1_ShortCircuitEqualsReference ==
  Called => (call.result.isValid = ReferenceValid(call.report, call.images, call.config))

\* a valid call that went through a conditional rule, a string rule and the
\* custom predicate, all of them active
C1_Witness ==
  /\ Called
  /\ call.result.isValid
  /\ call.config.minImages > 0
  /\ call.config.baseFields # <<>>
  /\ \E k \in 1..Len(RulesIn(call.config.conditionalFields)) :
       Get(call.report, RulesIn(call.config.conditionalFields)[k].conditionField)
         = RulesIn(call.config.conditionalFields)[k].conditionValue
  /\ \E k \in 1..Len(RulesIn(call.config.stringFields)) :
       StringRuleApplies(call.report, RulesIn(call.config.stringFields)[k])
  /\ call.config.customValidation # Undefined

(***************************************************************************)
(* C2: with an absent record (null or undefined), whatever the image count *)
(* and the configuration, validateForm is false and the message is         *)
(* "Report data is not available.", also when images are missing too.      *)
(***************************************************************************)
C2_AbsentRecord ==
  (Called /\ call.report \in {Null, Undefined})
    => /\ call.result.isValid = FALSE
       /\ call.result.errorMessage = Str(<<"Report data is not available.">>)

C2_Witness ==
  /\ Called
  /\ call.report = Undefined
  /\ Len(call.images) < call.config.minImages
  /\ call.result.errorMessage = Str(<<"Report data is not available.">>)

(***************************************************************************)
(* C3 as stated: for every image count below minImages, validateForm is    *)
(* false whatever the record, and the message is "Please capture at least  *)
(* N photos to submit." with N = minImages.                                *)
(***************************************************************************)
C3_Original ==
  (Called /\ Len(call.images) < call.config.minImages)
    => /\ call.result.isValid = FALSE
       /\ call.result.errorMessage = ExpectedCaptureMessage(call.config.minImages)

(***************************************************************************)
(* C3 amended: for every image count below minImages, validateForm is      *)
(* false whatever the record, and when the record is present the message   *)
(* is "Please capture at least N photos to submit." with N = minImages.    *)
(***************************************************************************)
C3_TooFewImages ==
  (Called /\ Len(call.images) < call.config.minImages)
    => /\ call.result.isValid = FALSE
       /\ RecordPresent(call.report)
            => call.result.errorMessage = ExpectedCaptureMessage(call.config.minImages)

\* a complete record, short of images only
C3_Witness ==
  /\ Called
  /\ RecordPresent(call.report)
  /\ Len(call.images) = 1
  /\ call.config.minImages = 2
  /\ ReferenceValid(call.report, <<Image(1), Image(2)>>, call.config)
  /\ call.result.errorMessage = ExpectedCaptureMessage(2)

(***************************************************************************)
(* C4: the hook yields exactly one of four outcomes, in strict priority:   *)
(* record absent -> "Report data is not available."; record present and    *)
(* too few images -> the capture message with minImages; record present,   *)
(* images sufficient and some base, conditional, string or custom rule     *)
(* failing -> "Please fill all required fields to submit."; otherwise      *)
(* null.  errorMessage is null exactly when isValid is true, and isValid   *)
(* is validateForm of the same inputs.                                     *)
(***************************************************************************)
C4_FourOutcomes ==
  Called =>
    LET report == call.report
        images == call.images
        config == call.config
        message == call.result.errorMessage
        rulesHold == /\ AllFieldsPresent(report, config.baseFields)
                     /\ AllConditionalsHold(report, config)
                     /\ AllStringsHold(report, config)
                     /\ CustomHolds(report, config)
    IN /\ ~RecordPresent(report)
            => message = Str(<<"Report data is not available.">>)
       /\ (RecordPresent(report) /\ Len(images) < config.minImages)
            => message = ExpectedCaptureMessage(config.minImages)
       /\ (RecordPresent(report) /\ Len(images) >= config.minImages /\ ~rulesHold)
            => message = Str(<<"Please fill all required fields to submit.">>)
       /\ (RecordPresent(report) /\ Len(images) >= config.minImages /\ rulesHold)
            => message = Null
       /\ (message = Null) <=> call.result.isValid
       /\ call.result.isValid = validateForm(report, images, config)

\* the third outcome: only a rule fails
C4_Witness ==
  /\ Called
  /\ RecordPresent(call.report)
  /\ call.config.minImages > 0
  /\ Len(call.images) >= call.config.minImages
  /\ AllFieldsPresent(call.report, call.config.baseFields)
  /\ ~AllStringsHold(call.report, call.config)
  /\ call.result.errorMessage = Str(<<"Please fill all required fields to submit.">>)

(***************************************************************************)
(* C5: if some field of config.baseFields is '', null or absent in the     *)
(* record (the record holds no value for it), validateForm is false        *)
(* whatever the rest of the inputs.                                        *)
(***************************************************************************)
\* what the record itself holds for a field
OwnValue(report, field) ==
  IF field \in DOMAIN report.v THEN report.v[field] ELSE Undefined

C5_BaseFieldMissing ==
  (Called /\ \E k \in 1..Len(call.config.baseFields) :
               OwnValue(call.report, call.config.baseFields[k]) \in {Str(<<>>), Null, Undefined})
    => call.result.isValid = FALSE

(***************************************************************************)
(* C6: conditional rules are independent and conjunctive.  Each rule adds  *)
(* to the rest of the configuration exactly the demand "if                 *)
(* record[conditionField] === conditionValue then the required fields are  *)
(* present" and nothing else; with two rules on different condition fields *)
(* whose conditions both hold, meeting one rule while a required field of  *)
(* the other is missing gives false.                                       *)
(***************************************************************************)
C6_ConditionalIndependence ==
  Called =>
    LET rules == RulesIn(call.config.conditionalFields)
    IN /\ \A k \in 1..Len(rules) :
            call.result.isValid
              = (/\ validateForm(call.report, call.images, WithoutConditional(call.config, k))
                 /\ ConditionalRuleHolds(call.report, rules[k]))
       /\ \A j, k \in 1..Len(rules) :
            (/\ rules[j].conditionField # rules[k].conditionField
             /\ Get(call.report, rules[j].conditionField) = rules[j].conditionValue
             /\ Get(call.report, rules[k].conditionField) = rules[k].conditionValue
             /\ AllFieldsPresent(call.report, rules[j].requiredFields)
             /\ ~AllFieldsPresent(call.report, rules[k].requiredFields))
              => call.result.isValid = FALSE

\* two active rules on different fields, the first met, the second not,
\* nothing else wrong
C6_Witness ==
  /\ Called
  /\ RecordPresent(call.report)
  /\ Len(call.images) >= call.config.minImages
  /\ AllFieldsPresent(call.report, call.config.baseFields)
  /\ Len(RulesIn(call.config.conditionalFields)) = 2
  /\ LET rules == RulesIn(call.config.conditionalFields)
     IN /\ rules[1].conditionField # rules[2].conditionField
        /\ Get(call.report, rules[1].conditionField) = rules[1].conditionValue
        /\ Get(call.report, rules[2].conditionField) = rules[2].conditionValue
        /\ AllFieldsPresent(call.report, rules[1].requiredFields)
        /\ ~AllFieldsPresent(call.report, rules[2].requiredFields)
  /\ call.result.isValid = FALSE

(***************************************************************************)
(* C7: a string rule whose condition holds makes validateForm false unless *)
(* the target is a string that is non-empty after trimming (whitespace     *)
(* only, '', null, undefined and non-strings fail); a rule whose condition *)
(* does not hold does not constrain the target.  Scenario: minImages 2,    *)
(* baseFields [status], rule (status, Hold, holdReason): {status: Hold,    *)
(* holdReason: '  '} with 2 images is invalid and {status: Hold,           *)
(* holdReason: 'pending docs'} with 2 images is valid.                     *)
(***************************************************************************)
ScenarioReport(holdReason) ==
  Obj([f \in ReportFields |->
        CASE f = "status" -> Hold
          [] f = "holdReason" -> holdReason
          [] OTHER -> Undefined])

C7_StringRule ==
  Called =>
    LET rules == RulesIn(call.config.stringFields)
    IN /\ \A k \in 1..Len(rules) :
            /\ (/\ StringRuleApplies(call.report, rules[k])
                /\ ~NonBlankString(Get(call.report, rules[k].stringField)))
                 => call.result.isValid = FALSE
            /\ ~StringRuleApplies(call.report, rules[k])
                 => call.result.isValid
                      = validateForm(call.report, call.images, WithoutString(call.config, k))
       /\ (call.config = ScenarioConfig /\ Len(call.images) = 2)
            => /\ call.report = ScenarioReport(Str(<<" ", " ">>)) => call.result.isValid = FALSE
               /\ call.report = ScenarioReport(PendingDocs) => call.result.isValid = TRUE

\* the scenario's first record: holdReason is two spaces
C7_Witness ==
  /\ Called
  /\ call.config = ScenarioConfig
  /\ Len(call.images) = 2
  /\ call.report = ScenarioReport(Str(<<" ", " ">>))
  /\ call.result.isValid = FALSE
  /\ call.result.errorMessage = Str(<<"Please fill all required fields to submit.">>)

(***************************************************************************)
(* C8: a string rule with negate = true and conditionValue X demands a     *)
(* non-blank string target exactly when record[conditionField] !== X       *)
(* (also when the condition field is absent) and exempts it when           *)
(* record[conditionField] === X; with negate = false, which is what the    *)
(* builder stores when the flag is omitted, the demand applies exactly     *)
(* when record[conditionField] === X.                                      *)
(***************************************************************************)
C8_NegateFlag ==
  /\ Called =>
       LET rules == RulesIn(call.config.stringFields)
       IN \A k \in 1..Len(rules) :
            LET equal == Get(call.report, rules[k].conditionField) = rules[k].conditionValue
                demanded == IF rules[k].negateCondition = Bool(TRUE) THEN ~equal ELSE equal
            IN call.result.isValid
                 = (/\ validateForm(call.report, call.images, WithoutString(call.config, k))
                    /\ demanded => NonBlankString(Get(call.report, rules[k].stringField)))
  /\ \A rule \in StringChoices :
       LET after == ConfigAt(addStringField(heap, builder, rule[1], rule[2], rule[3], rule[4]),
                             builder.config)
           added == after.stringFields.v[Len(after.stringFields.v)]
       IN added.negateCondition = (IF rule[4] = Undefined THEN Bool(FALSE) ELSE rule[4])
  /\ \A k \in 1..Len(ConfigAt(heap, builder.config).stringFields.v) :
       ConfigAt(heap, builder.config).stringFields.v[k].negateCondition
         \in {Bool(TRUE), Bool(FALSE)}

\* a built negated rule, its condition field absent from the record, its
\* target blank: the demand applies and fails the form
C8_Witness ==
  /\ Called
  /\ call.config # ScenarioConfig
  /\ RecordPresent(call.report)
  /\ Len(call.images) >= call.config.minImages
  /\ AllFieldsPresent(call.report, call.config.baseFields)
  /\ AllConditionalsHold(call.report, call.config)
  /\ \E k \in 1..Len(RulesIn(call.config.stringFields)) :
       LET rule == RulesIn(call.config.stringFields)[k]
       IN /\ rule.negateCondition = Bool(TRUE)
          /\ Get(call.report, rule.conditionField) = Undefined
          /\ ~NonBlankString(Get(call.report, rule.stringField))
  /\ \E k \in 1..Len(RulesIn(call.config.stringFields)) :
       RulesIn(call.config.stringFields)[k].negateCondition = Bool(FALSE)
  /\ call.result.isValid = FALSE

(***************************************************************************)
(* C9: a custom predicate is invoked last with the full record: at most    *)
(* once per evaluation, only after the record-presence, image-count, base, *)
(* conditional and string checks have all passed, never when one of them   *)
(* failed, and a false return makes validateForm false.                    *)
(***************************************************************************)
C9_CustomLast ==
  Called =>
    LET report == call.report
        config == call.config
        run == call.result.run
        earlierPass == /\ RecordPresent(report)
                       /\ Len(call.images) >= config.minImages
                       /\ AllFieldsPresent(report, config.baseFields)
                       /\ AllConditionalsHold(report, config)
                       /\ AllStringsHold(report, config)
    IN /\ Len(run.customCalls) <= 1
       /\ (Len(run.customCalls) = 1)
            <=> (config.customValidation # Undefined /\ earlierPass)
       /\ \A k \in 1..Len(run.customCalls) : run.customCalls[k] = report
       /\ Len(run.customCalls) = 1 => run.exit \in {"L104", "L107"}
       /\ (Len(run.customCalls) = 1 /\ ~CustomApply(config.customValidation.v, report))
            => call.result.isValid = FALSE

\* the predicate ran after active rules passed, and rejected the record
C9_Witness ==
  /\ Called
  /\ Len(call.result.run.customCalls) = 1
  /\ call.result.run.exit = "L104"
  /\ call.config.baseFields # <<>>
  /\ Len(RulesIn(call.config.conditionalFields)) + Len(RulesIn(call.config.stringFields)) > 0
  /\ call.result.isValid = FALSE

(***************************************************************************)
(* C10: build() returns an immutable snapshot: once build() has returned a *)
(* configuration, no later addConditionalFields, addStringField or         *)
(* addCustomValidation on the same builder changes what that returned      *)
(* configuration contains.                                                 *)
(***************************************************************************)
C10_BuildIsSnapshot ==
  [][\A k \in 1..Len(returned) :
       ConfigAt(heap', returned[k]) = ConfigAt(heap, returned[k])]_vars

(***************************************************************************)
(* C11: validateForm and useFormValidation are pure.  A hook call leaves   *)
(* the configuration it was given (minImages, baseFields, both rule lists  *)
(* and the custom predicate), the builder and everything else untouched,   *)
(* and its result is a function of the three arguments it was called with: *)
(* nothing that earlier calls or builder operations left behind enters it. *)
(***************************************************************************)
C11_HookIsPure ==
  [][(call = NoCall /\ call' # NoCall)
       => /\ heap' = heap
          /\ builder' = builder
          /\ returned' = returned
          /\ \A k \in 1..Len(returned) :
               ConfigAt(heap', returned[k]) = ConfigAt(heap, returned[k])
          /\ call'.result.isValid
               = ReferenceValid(call'.report, call'.images, call'.config)
          /\ call'.result.errorMessage
               = errorMessageOf(call'.result.isValid, call'.report, call'.images,
                                call'.config)]_vars

\* a call on a built configuration with rules and a custom predicate, which
\* the heap still holds as it was passed
C11_Witness ==
  /\ Called
  /\ returned # <<>>
  /\ call.config = ConfigAt(heap, returned[1])
  /\ RulesIn(call.config.conditionalFields) # <<>>
  /\ RulesIn(call.config.stringFields) # <<>>
  /\ call.config.customValidation # Undefined
  /\ RecordPresent(call.report)

(***************************************************************************)
(* C12: the order of the rules does not matter.  addConditionalFields and  *)
(* addStringField each append exactly one rule behind the rules already    *)
(* there, which stay as they are, and validateForm gives the same boolean  *)
(* for every reordering of the base fields, the conditional rules and the  *)
(* string rules of a configuration.                                        *)
(***************************************************************************)
Reorderings(seq) ==
  {[k \in 1..Len(seq) |-> seq[p[k]]] :
     p \in {q \in [1..Len(seq) -> 1..Len(seq)] :
              \A a, b \in 1..Len(seq) : a # b => q[a] # q[b]}}

ReorderedConfigs(config) ==
  {[config EXCEPT !.baseFields = base,
                  !.conditionalFields = IF @ = Undefined THEN @ ELSE Obj(conds),
                  !.stringFields = IF @ = Undefined THEN @ ELSE Obj(strs)] :
     base \in Reorderings(config.baseFields),
     conds \in Reorderings(RulesIn(config.conditionalFields)),
     strs \in Reorderings(RulesIn(config.stringFields))}

IsPrefixOf(old, new) == Len(new) = Len(old) + 1 /\ SubSeq(new, 1, Len(old)) = old

C12_OrderIrrelevant ==
  /\ [](Called => \A other \in ReorderedConfigs(call.config) :
                    validateForm(call.report, call.images, other) = call.result.isValid)
  /\ [][LET old == ConfigAt(heap, builder.config)
            new == ConfigAt(heap', builder.config)
        IN heap' # heap =>
             \/ /\ IsPrefixOf(old.conditionalFields.v, new.conditionalFields.v)
                /\ new.conditionalFields.v[Len(new.conditionalFields.v)]
                     \in {[conditionField |-> r[1], conditionValue |-> r[2],
                           requiredFields |-> r[3]] : r \in ConditionalChoices}
                /\ new.stringFields = old.stringFields
             \/ /\ IsPrefixOf(old.stringFields.v, new.stringFields.v)
                /\ new.conditionalFields = old.conditionalFields
             \/ /\ new.conditionalFields = old.conditionalFields
                /\ new.stringFields = old.stringFields]_vars

\* two different conditional rules, of which the second one fails the form
C12_Witness ==
  /\ Called
  /\ Len(RulesIn(call.config.conditionalFields)) = 2
  /\ RulesIn(call.config.conditionalFields)[1] # RulesIn(call.config.conditionalFields)[2]
  /\ ConditionalRuleHolds(call.report, RulesIn(call.config.conditionalFields)[1])
  /\ ~ConditionalRuleHolds(call.report, RulesIn(call.config.conditionalFields)[2])
  /\ call.result.run.exit = "L84"

(***************************************************************************)
(* C13: the builder has one slot for the custom predicate.  Whatever was   *)
(* installed before, after addCustomValidation(fn) the configuration holds *)
(* fn alone: a record that only the earlier predicate rejects is accepted. *)
(* The conditional and string rule lists are not touched.                  *)
(***************************************************************************)
\* an image list that meets every minimum in use
EnoughImages == [i \in 1..MaxImages |-> Image(i)]

C13_SingleCustomSlot ==
  call = NoCall =>
    \A fn \in CustomPredicates :
      LET before == ConfigAt(heap, builder.config)
          after == ConfigAt(addCustomValidation(heap, builder, fn), builder.config)
      IN /\ after.customValidation = Fn(fn)
         /\ after.conditionalFields = before.conditionalFields
         /\ after.stringFields = before.stringFields
         /\ after.minImages = before.minImages
         /\ after.baseFields = before.baseFields
         /\ \A report \in Reports :
              validateForm(report, EnoughImages, after)
                = (/\ ReferenceValid(report, EnoughImages,
                                     [before EXCEPT !.customValidation = Undefined])
                   /\ CustomApply(fn, report))

\* the built configuration holds requireKind, and a record that
\* rejectHoldWithoutDetail rejects is valid
C13_Witness ==
  /\ Called
  /\ returned # <<>>
  /\ call.config.customValidation = Fn("requireKind")
  /\ ~CustomApply("rejectHoldWithoutDetail", call.report)
  /\ call.result.isValid

(***************************************************************************)
(* C14: with minImages 0, no base field, no conditional rule, no string    *)
(* rule and no custom predicate, which is what a fresh builder builds,     *)
(* validateForm(record, no image) is true for every record that is not     *)
(* absent, and the message is null.                                        *)
(***************************************************************************)
EmptyConfig ==
  [minImages |-> 0, baseFields |-> <<>>, conditionalFields |-> Obj(<<>>),
   stringFields |-> Obj(<<>>), customValidation |-> Undefined]

C14_EmptyConfigAccepts ==
  /\ ConfigAt(constructorHeap(0, <<>>), Ref(1)) = EmptyConfig
  /\ (/\ Called
      /\ call.config.minImages = 0
      /\ call.config.baseFields = <<>>
      /\ RulesIn(call.config.conditionalFields) = <<>>
      /\ RulesIn(call.config.stringFields) = <<>>
      /\ call.config.customValidation = Undefined
      /\ call.images = <<>>
      /\ call.report \notin {Null, Undefined})
       => /\ call.result.isValid = TRUE
          /\ call.result.errorMessage = Null

\* the fresh builder's configuration, no image, a record with nothing in it
C14_Witness ==
  /\ Called
  /\ call.config = EmptyConfig
  /\ call.images = <<>>
  /\ call.report = Obj([f \in ReportFields |-> Undefined])
  /\ call.result.isValid

(***************************************************************************)
(* The migration of a form (FORM_VALIDATION_MIGRATION_GUIDE.md, step 2).   *)
(* 'Before' is the inline useMemo of lines 36-59; 'After' is the builder   *)
(* chain of lines 65-72 followed by the hook call of lines 75-79.          *)
(***************************************************************************)
SomeEnumValue == Str(<<"V">>)
OtherEnumValue == Str(<<"W">>)

MigrationBaseFields == <<"field1", "field2", "field3">>

\* every field is a string, null or undefined
MigrationValues(f) ==
  CASE f \in {"field1", "field2", "field3"} -> {Undefined, Null, EmptyString, PendingDocs}
    [] f = "someField" -> {Undefined, SomeEnumValue, OtherEnumValue}
    [] f = "conditionalField" -> {Undefined, Null, EmptyString, PaddedX}
    [] f = "status" -> {Undefined, Hold, Clear}
    [] f = "holdReason" -> {Undefined, Null, EmptyString, Blank, PendingDocs}

\* a report carries its image list in report.images
MigrationReports ==
  {Null, Undefined} \cup
  {Obj(r) : r \in [field1 : MigrationValues("field1"),
                   field2 : MigrationValues("field2"),
                   field3 : MigrationValues("field3"),
                   someField : MigrationValues("someField"),
                   conditionalField : MigrationValues("conditionalField"),
                   status : MigrationValues("status"),
                   holdReason : MigrationValues("holdReason"),
                   images : {Obj(list) : list \in ImageLists}]}

\* guide lines 40-43
checkFieldsBefore(report, fields) ==
  \A i \in 1..Len(fields) :
    LET value == Get(report, fields[i])
    IN ~StrictEquals(value, Null) /\ ~StrictEquals(value, Undefined)
         /\ ~StrictEquals(value, EmptyString)

\* guide lines 36-59, for field values that are strings, null or undefined
isFormValidBefore(report, MIN_IMAGES) ==
  IF ~Truthy(report) THEN FALSE
  ELSE IF Len(Get(report, "images").v) < MIN_IMAGES THEN FALSE
  ELSE IF ~checkFieldsBefore(report, MigrationBaseFields) THEN FALSE
  ELSE IF /\ StrictEquals(Get(report, "someField"), SomeEnumValue)
          /\ ~checkFieldsBefore(report, <<"conditionalField">>) THEN FALSE
  ELSE IF /\ StrictEquals(Get(report, "status"), Hold)
          /\ \/ ~Truthy(Get(report, "holdReason"))
             \/ Trim(Get(report, "holdReason").v) = <<>> THEN FALSE
  ELSE TRUE

\* guide line 77: report?.images || []
imagesArgument(report) ==
  LET optional == IF report \in {Null, Undefined} THEN Undefined ELSE Get(report, "images")
  IN IF Truthy(optional) THEN optional.v ELSE <<>>

\* guide lines 66-69
MigrationInit ==
  /\ \E MIN_IMAGES \in MinImagesChoices :
       heap = constructorHeap(MIN_IMAGES, MigrationBaseFields)
  /\ builder = [config |-> Ref(1)]
  /\ returned = <<>>
  /\ call = NoCall
  /\ CaptureInit
  /\ cameraSupported = TRUE
  /\ modalKeepsVideo = TRUE

\* guide line 70
MigrationAddConditionalFields ==
  /\ returned = <<>>
  /\ RulesIn(ConfigAt(heap, builder.config).conditionalFields) = <<>>
  /\ heap' = addConditionalFields(heap, builder, "someField", SomeEnumValue,
                                  <<"conditionalField">>)
  /\ UNCHANGED <<builder, returned, call, captureVars>>

\* guide line 71: the negate flag is omitted
MigrationAddStringField ==
  /\ returned = <<>>
  /\ RulesIn(ConfigAt(heap, builder.config).conditionalFields) # <<>>
  /\ RulesIn(ConfigAt(heap, builder.config).stringFields) = <<>>
  /\ heap' = addStringField(heap, builder, "status", Hold, "holdReason", Undefined)
  /\ UNCHANGED <<builder, returned, call, captureVars>>

\* guide line 72
MigrationBuild ==
  /\ returned = <<>>
  /\ RulesIn(ConfigAt(heap, builder.config).stringFields) # <<>>
  /\ returned' = Append(returned, build(heap, builder))
  /\ UNCHANGED <<heap, builder, call, captureVars>>

\* guide lines 75-79: the form renders with some report
MigrationRender ==
  /\ call = NoCall
  /\ returned # <<>>
  /\ \E report \in MigrationReports :
       LET images == imagesArgument(report)
           config == ConfigAt(heap, returned[1])
       IN call' = [op |-> "useFormValidation",
                   report |-> report, images |-> images, config |-> config,
                   result |-> useFormValidation(report, images, config)]
  /\ UNCHANGED <<heap, builder, returned, captureVars>>

MigrationNext ==
  \/ MigrationAddConditionalFields
  \/ MigrationAddStringField
  \/ MigrationBuild
  \/ MigrationRender
  \/ RenderDone

SpecMigration == MigrationInit /\ [][MigrationNext]_vars

(***************************************************************************)
(* C15: the migration preserves behaviour.  For every report that is       *)
(* absent or has field1..field3, someField, conditionalField, status and   *)
(* holdReason each a string, null or undefined and any image list, the     *)
(* isValid of the migrated form equals the isFormValid of the inline logic *)
(* it replaces.                                                            *)
(***************************************************************************)
C15_MigrationPreservesBehaviour ==
  Called => call.result.isValid = isFormValidBefore(call.report, call.config.minImages)

\* a report on hold whose reason is blank, everything else filled in: both
\* versions reject it, and the trimmed string rule is what decides
C15_Witness ==
  /\ Called
  /\ call.config.baseFields = MigrationBaseFields
  /\ Truthy(call.report)
  /\ Len(call.images) >= call.config.minImages
  /\ checkFieldsBefore(call.report, MigrationBaseFields)
  /\ Get(call.report, "someField") = SomeEnumValue
  /\ Get(call.report, "conditionalField") = PaddedX
  /\ Get(call.report, "status") = Hold
  /\ Get(call.report, "holdReason") = Blank
  /\ call.result.isValid = FALSE
  /\ call.result.run.exit = "L97"

(***************************************************************************)
(* ImageCapture (README.md:245-448).  The parent owns the image list and   *)
(* replaces it with whatever onImagesChange is given.  A handler that      *)
(* awaits (getUserMedia, the position) is two steps: the click, and the    *)
(* continuation that runs when the promise settles.  The continuation of   *)
(* handleTakePhoto sees the `images` of the render in which it was clicked.*)
(* The useState setters are modelled as writes of the value they are given.*)
(***************************************************************************)
CameraAccessError ==
  Str(<<"Could not access the camera. Please check permissions and try again.">>)
CameraNotSupported == Str(<<"Camera not supported on this device.">>)

\* lines 300-313: the Error thrown for a rejected position request
GeoErrors ==
  {"PERMISSION_DENIED", "POSITION_UNAVAILABLE", "TIMEOUT", "otherCode", "notAGeolocationError"}

geoErrorMessage(geoError) ==
  CASE geoError = "PERMISSION_DENIED" ->
         Str(<<"Location access denied. Please enable location permissions in your browser settings and try again.">>)
    [] geoError = "POSITION_UNAVAILABLE" ->
         Str(<<"Location information is unavailable. Please check your device's location services and try again.">>)
    [] geoError = "TIMEOUT" ->
         Str(<<"Location request timed out. Please try again or check your GPS signal.">>)
    [] geoError = "otherCode" ->
         Str(<<"Failed to get location. Please ensure location services are enabled and try again.">>)
    [] OTHER -> Str(<<"Failed to access location services. Please try again.">>)

\* what the continuation finds: the video element, the 2d context, the data URL
VideoStates == {"null", "zeroSize", "ready"}
DataUrls == {"", "data:,", "data:image/jpeg"}

\* lines 319-361: the message of the Error thrown after the position arrived,
\* or null when none is thrown.  The inner catch replaces the message of
\* anything thrown inside the inner try.
captureErrorMessage(video, context, dataUrl) ==
  IF video = "null"
  THEN Str(<<"Camera not available. Please close and reopen the camera.">>)
  ELSE IF video = "zeroSize"
  THEN Str(<<"Camera not ready. Please wait for the camera to load and try again.">>)
  ELSE IF ~context
  THEN Str(<<"Unable to process image. Your browser may not support this feature.">>)
  ELSE IF dataUrl = "" \/ dataUrl = "data:,"
  THEN Str(<<"Failed to process captured image. Please try again.">>)
  ELSE Null

Positions == {[latitude |-> 12, longitude |-> 77], [latitude |-> 13, longitude |-> 78]}

\* lines 317 and 348-354: the clock is read for the timestamp (the instant
\* toISOString() prints) and read again, after the canvas work, for the id
newImage(timestampNow, idNow, position, dataUrl) ==
  [id |-> <<"i", "m", "g", "_">> \o NumberToString(idNow),
   dataUrl |-> dataUrl,
   latitude |-> position.latitude,
   longitude |-> position.longitude,
   timestamp |-> timestampNow]

\* videoRef.current is an element: the <video> is a child of Modal (line
\* 433); Modal is not part of the source, so whether it renders its children
\* while it is not visible is one choice or the other, fixed per build
videoElement == mounted /\ (modalKeepsVideo \/ isCapturing)

\* the srcObject of the <video> once the modal is no longer visible: a Modal
\* that unmounts its children drops the element and what was attached to it
srcObjectAfterClose == IF modalKeepsVideo THEN srcObject ELSE 0

\* lines 252-258
stopCamera ==
  /\ streams' = IF streamRef # 0 THEN [streams EXCEPT ![streamRef] = "stopped"] ELSE streams
  /\ streamRef' = 0
  /\ isCapturing' = FALSE

\* line 379
withoutId(list, id) ==
  LET keep(img) == img.id # id
  IN SelectSeq(list, keep)

\* the pending invocations without the one that has settled
Settled(pending, i) ==
  [k \in 1..(Len(pending) - 1) |-> IF k < i THEN pending[k] ELSE pending[k + 1]]

CaptureFormIdle ==
  /\ heap = constructorHeap(0, <<>>)
  /\ builder = [config |-> Ref(1)]
  /\ returned = <<>>
  /\ call = NoCall

CaptureStart ==
  /\ CaptureFormIdle
  /\ CaptureInit
  /\ cameraSupported \in BOOLEAN
  /\ modalKeepsVideo \in BOOLEAN

\* lines 267-269 and 281-283: "Add Geotagged Photo" is clicked
StartCapture ==
  /\ mounted
  /\ IF cameraSupported
     THEN /\ starts < MaxStarts
          /\ starts' = starts + 1
          /\ error' = Null
     ELSE /\ error' = CameraNotSupported
          /\ UNCHANGED starts
  /\ UNCHANGED <<formVars, capturedImages, isCapturing, isLoading, streamRef, srcObject,
                 streams, takes, done, mounted, cameraSupported, modalKeepsVideo, clock>>

\* lines 270-275: getUserMedia resolves with a new stream
GetUserMediaResolved ==
  /\ starts > 0
  /\ Len(streams) < MaxStreams
  /\ starts' = starts - 1
  /\ streams' = Append(streams, "live")
  /\ streamRef' = Len(streams) + 1
  /\ srcObject' = IF videoElement THEN Len(streams) + 1 ELSE srcObject
  /\ isCapturing' = TRUE
  /\ UNCHANGED <<formVars, capturedImages, isLoading, error, takes, done, mounted,
                 cameraSupported, modalKeepsVideo, clock>>

\* lines 276-279: getUserMedia rejects
GetUserMediaRejected ==
  /\ starts > 0
  /\ starts' = starts - 1
  /\ error' = CameraAccessError
  /\ UNCHANGED <<formVars, capturedImages, isCapturing, isLoading, streamRef, srcObject,
                 streams, takes, done, mounted, cameraSupported, modalKeepsVideo, clock>>

\* lines 287-299, 435-437: "Take Photo" is clicked in the visible modal; the
\* button is disabled while isLoading
TakePhoto ==
  /\ mounted
  /\ isCapturing
  /\ ~isLoading
  /\ Len(takes) < MaxTakes
  /\ Len(capturedImages) < MaxImages
  /\ isLoading' = TRUE
  /\ error' = Null
  /\ takes' = Append(takes, [images |-> capturedImages])
  /\ done' = "none"
  /\ UNCHANGED <<formVars, capturedImages, isCapturing, streamRef, srcObject, streams,
                 starts, mounted, cameraSupported, modalKeepsVideo, clock>>

\* faulty variant: no finally block, the flag is left set
GeolocationRejectedNoFinally ==
  \E i \in 1..Len(takes), geoError \in GeoErrors :
    /\ takes' = Settled(takes, i)
    /\ error' = geoErrorMessage(geoError)
    /\ done' = "failure"
    /\ UNCHANGED <<formVars, capturedImages, isCapturing, isLoading, streamRef, srcObject,
                   streams, starts, mounted, cameraSupported, modalKeepsVideo, clock>>

\* lines 300-313, 362-375: the position request rejects
GeolocationRejected ==
  \E i \in 1..Len(takes), geoError \in GeoErrors :
    /\ takes' = Settled(takes, i)
    /\ error' = geoErrorMessage(geoError)
    /\ isLoading' = FALSE
    /\ done' = "failure"
    /\ UNCHANGED <<formVars, capturedImages, isCapturing, streamRef, srcObject, streams,
                   starts, mounted, cameraSupported, modalKeepsVideo, clock>>

\* lines 315-375: the position arrives and the rest of handleTakePhoto runs.
\* The clock is read at line 317 and again at line 349 (`later`); it is wall
\* clock time, so the second reading may be any value, earlier ones included.
GeolocationResolved ==
  \E i \in 1..Len(takes), position \in Positions, video \in VideoStates,
     context \in BOOLEAN, dataUrl \in DataUrls, later \in 0..MaxClock :
    /\ video = "null" <=> ~videoElement
    /\ video = "ready" => srcObject # 0
    /\ takes' = Settled(takes, i)
    /\ IF captureErrorMessage(video, context, dataUrl) = Null
       THEN /\ capturedImages' =
                 Append(takes[i].images, newImage(clock, later, position, dataUrl))
            /\ clock' = later
            /\ stopCamera
            /\ srcObject' = srcObjectAfterClose
            /\ done' = "success"
            /\ UNCHANGED error
       ELSE /\ later = clock
            /\ error' = captureErrorMessage(video, context, dataUrl)
            /\ done' = "failure"
            /\ UNCHANGED <<capturedImages, isCapturing, streamRef, streams, srcObject, clock>>
    /\ isLoading' = FALSE
    /\ UNCHANGED <<formVars, starts, mounted, cameraSupported, modalKeepsVideo>>

\* lines 378-380, 413-415: the delete button of an image is clicked
DeleteImage ==
  /\ mounted
  /\ \E i \in 1..Len(capturedImages) :
       capturedImages' = withoutId(capturedImages, capturedImages[i].id)
  /\ UNCHANGED <<formVars, isCapturing, isLoading, error, streamRef, srcObject, streams,
                 starts, takes, done, mounted, cameraSupported, modalKeepsVideo, clock>>

\* line 431: the modal is closed
CloseModal ==
  /\ mounted
  /\ isCapturing
  /\ stopCamera
  /\ srcObject' = srcObjectAfterClose
  /\ UNCHANGED <<formVars, capturedImages, isLoading, error, starts, takes,
                 done, mounted, cameraSupported, modalKeepsVideo, clock>>

\* lines 260-265: the component unmounts and the effect's cleanup runs
Unmount ==
  /\ mounted
  /\ mounted' = FALSE
  /\ stopCamera
  /\ UNCHANGED <<formVars, capturedImages, isLoading, error, srcObject, starts, takes,
                 done, cameraSupported, modalKeepsVideo, clock>>

\* the system clock that Date.now() reads moves on
Tick ==
  /\ clock < MaxClock
  /\ clock' = clock + 1
  /\ UNCHANGED <<formVars, capturedImages, isCapturing, isLoading, error, streamRef,
                 srcObject, streams, starts, takes, done, mounted, cameraSupported, modalKeepsVideo>>

\* the system clock is set back (Date.now() is wall-clock time, not monotonic)
ClockSetBack ==
  /\ clock > 0
  /\ clock' \in 0..(clock - 1)
  /\ UNCHANGED <<formVars, capturedImages, isCapturing, isLoading, error, streamRef,
                 srcObject, streams, starts, takes, done, mounted, cameraSupported, modalKeepsVideo>>

CaptureNext ==
  \/ StartCapture
  \/ GetUserMediaResolved
  \/ GetUserMediaRejected
  \/ TakePhoto
  \/ GeolocationRejected
  \/ GeolocationResolved
  \/ DeleteImage
  \/ CloseModal
  \/ Unmount
  \/ Tick
  \/ ClockSetBack

SpecCapture == CaptureStart /\ [][CaptureNext]_vars

\* the position request settles: getCurrentPosition is given timeout: 10000
SpecCaptureFair ==
  SpecCapture /\ WF_vars(GeolocationRejected \/ GeolocationResolved)

\* a handleTakePhoto invocation finishes in this step
TakeFinishes == Len(takes') < Len(takes)

Live(k) == streams[k] = "live"

(***************************************************************************)
(* C16: image identifiers are unique.  The ids of the images in the list   *)
(* are pairwise distinct, so deleting by id removes exactly one image.     *)
(***************************************************************************)
C16_IdsAreUnique ==
  /\ \A i, j \in 1..Len(capturedImages) :
       i # j => capturedImages[i].id # capturedImages[j].id
  /\ \A i \in 1..Len(capturedImages) :
       withoutId(capturedImages, capturedImages[i].id) = Settled(capturedImages, i)

(***************************************************************************)
(* C17: every handleTakePhoto ends in exactly one of two outcomes.         *)
(* Success: one new image with the position's coordinates is appended at   *)
(* the end of the image list, the camera is stopped and error is null.     *)
(* Failure: the list is unchanged, error is a message and the camera is    *)
(* left as it was.  Nothing but a successful capture or a delete changes   *)
(* the image list.                                                         *)
(***************************************************************************)
C17_TwoOutcomes ==
  [][/\ TakeFinishes =>
          \/ /\ done' = "success"
             /\ \E position \in Positions :
                  /\ Len(capturedImages') = Len(capturedImages) + 1
                  /\ SubSeq(capturedImages', 1, Len(capturedImages)) = capturedImages
                  /\ capturedImages'[Len(capturedImages')].latitude = position.latitude
                  /\ capturedImages'[Len(capturedImages')].longitude = position.longitude
             /\ streamRef' = 0
             /\ ~isCapturing'
             /\ \A k \in 1..Len(streams) : k = streamRef => streams'[k] = "stopped"
             /\ error' = Null
          \/ /\ done' = "failure"
             /\ capturedImages' = capturedImages
             /\ error' # Null
             /\ isCapturing' = isCapturing
             /\ streamRef' = streamRef
             /\ streams' = streams
     /\ capturedImages' # capturedImages =>
          \/ TakeFinishes /\ done' = "success"
          \/ \E i \in 1..Len(capturedImages) :
               capturedImages' = withoutId(capturedImages, capturedImages[i].id)]_vars

(***************************************************************************)
(* C18: no image is lost to a stale snapshot.  When a handleTakePhoto that *)
(* waited for the position succeeds, the list it hands to onImagesChange   *)
(* is the list as it stands at that moment plus the new image.             *)
(***************************************************************************)
C18_NoStaleSnapshot ==
  [][(TakeFinishes /\ done' = "success") =>
       /\ Len(capturedImages') = Len(capturedImages) + 1
       /\ SubSeq(capturedImages', 1, Len(capturedImages)) = capturedImages]_vars

(***************************************************************************)
(* C19: no camera stream leaks.  streamRef references the only live        *)
(* stream; when isCapturing is false and no start is in flight no stream   *)
(* is live; and no stream is left live once the component is unmounted and *)
(* nothing is in flight, since nothing would stop it any more.             *)
(***************************************************************************)
C19_NoStreamLeak ==
  /\ \A k \in 1..Len(streams) : Live(k) => streamRef = k
  /\ (~isCapturing /\ starts = 0) => \A k \in 1..Len(streams) : ~Live(k)
  /\ (~mounted /\ starts = 0) => \A k \in 1..Len(streams) : ~Live(k)

(***************************************************************************)
(* C20: the loading flag always clears.  isLoading is true exactly while a *)
(* handleTakePhoto is waiting, at most one is waiting at a time, and, the  *)
(* position request settling, isLoading becomes false again whatever the   *)
(* outcome.                                                                *)
(***************************************************************************)
C20_LoadingClears ==
  /\ [](Len(takes) <= 1)
  /\ [](isLoading <=> takes # <<>>)
  /\ (isLoading ~> ~isLoading)

\* a capture has timed out waiting for the position: the flag is clear
\* again and the message is shown
C20_Witness ==
  /\ done = "failure"
  /\ ~isLoading
  /\ takes = <<>>
  /\ error = geoErrorMessage("TIMEOUT")

====
